---- MODULE Spec2Model ----
(***************************************************************************)
(* Model of the cortex-evaluator AI router:                                *)
(*   app/services/circuit_breaker.py  (CircuitBreaker)                     *)
(*   app/services/ai_router.py        (CortexRouter)                       *)
(*                                                                         *)
(* One CortexRouter with its five providers, each owning a CircuitBreaker. *)
(* A request is one run of CortexRouter.analyze_with_fallback, split into  *)
(* one action per awaited provider call.                                   *)
(***************************************************************************)
EXTENDS Integers, Sequences, FiniteSets, TLC

VARIABLES
    cb,          \* provider name -> its CircuitBreaker object
    now,         \* time.time(), in whole seconds
    pc,          \* position of analyze_with_fallback: idle/primary/return/fallback/done
    decision,    \* the RoutingDecision of the running request
    idx,         \* position of the running loop in its lane (1-based)
    viable,      \* the providers whose operation answers this request with a valid result
    attempts,    \* the analyze_code calls of this request, in order
    validated,   \* the result that _validate_result accepted in this request
    returned,    \* the result analyze_with_fallback returned
    error,       \* the exception analyze_with_fallback raised
    ndirect,     \* provider calls made before the request
    inflight,    \* the CircuitBreaker.call coroutines suspended at "await func()"
    log,         \* what happened at the breaker under test: the last event and the run it ends
    request,     \* the inputs of the latest route_analysis call
    seen,        \* an earlier route_analysis call: its inputs and its decision
    status,      \* the latest two answers of get_provider_status
    verdict      \* what _validate_result returned for the dict in returned

vars == <<cb, now, pc, decision, idx, viable, attempts, validated, returned, error, ndirect,
          inflight, log, request, seen, status, verdict>>

\* the variables analyze_with_fallback and the traffic before it leave alone
observers == <<inflight, log, request, seen, status, verdict>>

(***************************************************************************)
(* Bounds of the exploration.                                              *)
(***************************************************************************)
MaxDirectCalls == 3
MaxTime == 60
TickStep == 60

(***************************************************************************)
(* circuit_breaker.py                                                      *)
(***************************************************************************)
CLOSED == "closed"
OPEN == "open"
HALF_OPEN == "half_open"
CircuitState == {CLOSED, OPEN, HALF_OPEN}

\* Optional[float] = None for _opened_at; times are >= 0
None == -1

default_success_threshold == 2
default_timeout == 60
default_window_size == 100

CircuitBreakerConfig(ft, st) ==
    [failure_threshold |-> ft, success_threshold |-> st,
     timeout |-> default_timeout, window_size |-> default_window_size]

CircuitBreaker(config) ==
    [config |-> config, state |-> CLOSED, failure_count |-> 0, success_count |-> 0,
     opened_at |-> None, call_history |-> <<>>]

\* a deque without maxlen
deque_append_unbounded(h, x, maxlen) == Append(h, x)

\* deque(maxlen=window_size).append
deque_append(h, x, maxlen) ==
    IF Len(h) >= maxlen THEN Tail(h) \o <<x>> ELSE Append(h, x)

\* _should_attempt_reset that waits for more than the timeout
should_attempt_reset_late(c, t) ==
    IF c.opened_at = None THEN FALSE ELSE t - c.opened_at > c.config.timeout

should_attempt_reset(c, t) ==
    IF c.opened_at = None THEN FALSE ELSE t - c.opened_at >= c.config.timeout

\* _transition_to_open that keeps the time of an earlier opening
transition_to_open_keeps_time(c, t) ==
    [c EXCEPT !.state = OPEN, !.opened_at = IF c.opened_at = None THEN t ELSE c.opened_at,
              !.success_count = 0, !.failure_count = 0]

transition_to_open(c, t) ==
    [c EXCEPT !.state = OPEN, !.opened_at = t, !.success_count = 0, !.failure_count = 0]

\* _transition_to_half_open that forgets when the breaker opened
transition_to_half_open_clears(c) ==
    [c EXCEPT !.state = HALF_OPEN, !.success_count = 0, !.opened_at = None]

transition_to_half_open(c) ==
    [c EXCEPT !.state = HALF_OPEN, !.success_count = 0]

\* _transition_to_closed that keeps the success counter
transition_to_closed_keeps_count(c) ==
    [c EXCEPT !.state = CLOSED, !.failure_count = 0, !.opened_at = None]

transition_to_closed(c) ==
    [c EXCEPT !.state = CLOSED, !.success_count = 0, !.failure_count = 0, !.opened_at = None]

\* _on_success without line 121
on_success_keeps_failures(c) ==
    LET h == [c EXCEPT !.call_history = deque_append(c.call_history, TRUE, c.config.window_size)]
    IN  IF h.state = HALF_OPEN
        THEN LET s == [h EXCEPT !.success_count = h.success_count + 1]
             IN  IF s.success_count >= s.config.success_threshold
                 THEN transition_to_closed(s) ELSE s
        ELSE h

on_success(c) ==
    LET h == [c EXCEPT !.call_history = deque_append(c.call_history, TRUE, c.config.window_size)]
    IN  IF h.state = HALF_OPEN
        THEN LET s == [h EXCEPT !.success_count = h.success_count + 1]
             IN  IF s.success_count >= s.config.success_threshold
                 THEN transition_to_closed(s) ELSE s
        ELSE IF h.state = CLOSED
        THEN [h EXCEPT !.failure_count = 0]
        ELSE h

\* _on_failure that opens only above the threshold
on_failure_exceeds(c, t) ==
    LET h == [c EXCEPT !.call_history = deque_append(c.call_history, FALSE, c.config.window_size)]
    IN  IF h.state = CLOSED
        THEN LET f == [h EXCEPT !.failure_count = h.failure_count + 1]
             IN  IF f.failure_count > f.config.failure_threshold
                 THEN transition_to_open(f, t) ELSE f
        ELSE IF h.state = HALF_OPEN
        THEN transition_to_open(h, t)
        ELSE h

on_failure(c, t) ==
    LET h == [c EXCEPT !.call_history = deque_append(c.call_history, FALSE, c.config.window_size)]
    IN  IF h.state = CLOSED
        THEN LET f == [h EXCEPT !.failure_count = h.failure_count + 1]
             IN  IF f.failure_count >= f.config.failure_threshold
                 THEN transition_to_open(f, t) ELSE f
        ELSE IF h.state = HALF_OPEN
        THEN transition_to_open(h, t)
        ELSE h

\* CircuitBreaker.call up to the await: is the call blocked, and the breaker as
\* the admission leaves it
blocked(c, t) == c.state = OPEN /\ ~should_attempt_reset(c, t)

\* an admission that leaves the breaker open
admit_stays_open(c, t) == c

admit(c, t) ==
    IF c.state = OPEN /\ should_attempt_reset(c, t) THEN transition_to_half_open(c) ELSE c

\* a call() that also opens a closed breaker whose history holds no success
call_trips_on_history(c, t, raises) ==
    IF blocked(c, t)
    THEN [breaker |-> c, raised |-> "CircuitBreakerError", invoked |-> FALSE]
    ELSE IF raises
    THEN LET f == on_failure(admit(c, t), t)
         IN  [breaker |-> IF f.state = CLOSED
                             /\ \A i \in DOMAIN f.call_history : ~f.call_history[i]
                          THEN transition_to_open(f, t) ELSE f,
              raised |-> "ProviderError", invoked |-> TRUE]
    ELSE [breaker |-> on_success(admit(c, t)), raised |-> "none", invoked |-> TRUE]

\* CircuitBreaker.call with the awaited function's outcome: raises or returns
call(c, t, raises) ==
    IF blocked(c, t)
    THEN [breaker |-> c, raised |-> "CircuitBreakerError", invoked |-> FALSE]
    ELSE IF raises
    THEN [breaker |-> on_failure(admit(c, t), t), raised |-> "ProviderError", invoked |-> TRUE]
    ELSE [breaker |-> on_success(admit(c, t)), raised |-> "none", invoked |-> TRUE]

(***************************************************************************)
(* ai_router.py: providers and lanes                                       *)
(***************************************************************************)
FAST == "fast"
SMART == "smart"
RoutingLane == {FAST, SMART}

\* CortexRouter.__init__: the two ordered provider lists
fast_lane == <<"ollama", "groq", "gemini">>
smart_lane == <<"claude", "openai">>

Range(s) == {s[i] : i \in 1..Len(s)}
Providers == Range(fast_lane) \cup Range(smart_lane)

\* the CircuitBreakerConfig each provider constructs for itself
ollama_failure_threshold == 3
groq_failure_threshold == 5
gemini_failure_threshold == 5
claude_failure_threshold == 3
openai_failure_threshold == 5

provider_failure_threshold(b) ==
    CASE b = "ollama" -> ollama_failure_threshold
      [] b = "groq"   -> groq_failure_threshold
      [] b = "gemini" -> gemini_failure_threshold
      [] b = "claude" -> claude_failure_threshold
      [] b = "openai" -> openai_failure_threshold

provider_circuit_breaker(b) ==
    CircuitBreaker(CircuitBreakerConfig(provider_failure_threshold(b), default_success_threshold))

(***************************************************************************)
(* Results of analyze_code: a dict, of which the router reads only the     *)
(* keys "success" and "result"; provider and call identify the object.     *)
(***************************************************************************)
NoResult == [has_success |-> FALSE, success |-> FALSE, has_result |-> FALSE,
             provider |-> "none", call |-> 0]

\* CortexRouter._validate_result
validate_result(result) ==
    (result.has_success /\ result.has_result) /\ result.success

\* what a provider's operation does when invoked: it raises, or returns
\* {"success": True, "result": ..}, {"success": True}, {"success": False, "result": ..},
\* {"success": False} or a dict with neither key
Outcomes ==
    {o \in [raises : BOOLEAN, has_success : BOOLEAN, success : BOOLEAN, has_result : BOOLEAN] :
        /\ ~o.has_success => (~o.success /\ ~o.has_result)
        /\ o.raises => ~o.has_success}

OutcomeKind(o) ==
    IF o.raises THEN "raise" ELSE IF validate_result(o) THEN "valid" ELSE "invalid"

\* the outcomes of the first invocation of provider b in this request
OutcomesOf(b) == {o \in Outcomes : (OutcomeKind(o) = "valid") <=> (b \in viable)}

(***************************************************************************)
(* CortexRouter.route_analysis                                             *)
(***************************************************************************)
context_limit == 100000

RoutingDecision(provider, lane, reason) ==
    [provider |-> provider, lane |-> lane, reason |-> reason]

NoDecision == RoutingDecision("none", "none", "none")

\* the fast lane searched for a provider named local
local_index_none ==
    IF \E i \in 1..Len(fast_lane) : fast_lane[i] = "local"
    THEN CHOOSE i \in 1..Len(fast_lane) : fast_lane[i] = "local"
    ELSE 0

\* the first provider of the fast lane named ollama, 0 if there is none
local_index ==
    IF \E i \in 1..Len(fast_lane) : fast_lane[i] = "ollama"
    THEN CHOOSE i \in 1..Len(fast_lane) :
            /\ fast_lane[i] = "ollama"
            /\ \A j \in 1..(i - 1) : fast_lane[j] # "ollama"
    ELSE 0

\* a route_analysis that passes over a first smart provider whose breaker is open
route_analysis_healthy(total_tokens, has_vision, user_intent) ==
    LET smart == IF cb[smart_lane[1]].state = OPEN THEN smart_lane[2] ELSE smart_lane[1]
    IN  IF total_tokens > context_limit
        THEN RoutingDecision(smart, SMART, "Large context size requires SMART lane")
        ELSE IF has_vision
        THEN RoutingDecision(smart, SMART, "Vision capabilities required")
        ELSE IF user_intent = "--strong"
        THEN RoutingDecision(smart, SMART, "User requested strong analysis")
        ELSE IF user_intent = "--local" /\ local_index # 0
        THEN RoutingDecision(fast_lane[local_index], FAST, "User requested local provider")
        ELSE IF user_intent = "--cheap"
        THEN RoutingDecision(fast_lane[1], FAST, "User requested cheap provider")
        ELSE RoutingDecision(fast_lane[1], FAST, "Default FAST lane")

route_analysis(total_tokens, has_vision, user_intent) ==
    IF total_tokens > context_limit
    THEN RoutingDecision(smart_lane[1], SMART, "Large context size requires SMART lane")
    ELSE IF has_vision
    THEN RoutingDecision(smart_lane[1], SMART, "Vision capabilities required")
    ELSE IF user_intent = "--strong"
    THEN RoutingDecision(smart_lane[1], SMART, "User requested strong analysis")
    ELSE IF user_intent = "--local" /\ local_index # 0
    THEN RoutingDecision(fast_lane[local_index], FAST, "User requested local provider")
    ELSE IF user_intent = "--cheap"
    THEN RoutingDecision(fast_lane[1], FAST, "User requested cheap provider")
    ELSE RoutingDecision(fast_lane[1], FAST, "Default FAST lane")

\* inputs of a request
TokenCounts == {0, context_limit, context_limit + 1}
Intents == {"None", "--strong", "--local", "--cheap", "--fast"}

Requests == [total_tokens : TokenCounts, has_vision : BOOLEAN, user_intent : Intents]

\* a request as it is observed: its inputs, and the router it was decided by
\* (the state of every breaker, the number of provider calls made before)
Request(inputs) ==
    [inputs |-> inputs, states |-> [b \in Providers |-> cb[b].state], calls |-> ndirect]

NoRequest ==
    [inputs |-> [total_tokens |-> 0, has_vision |-> FALSE, user_intent |-> "no request"],
     states |-> [b \in Providers |-> "none"], calls |-> 0]
NoSeen == [request |-> NoRequest, decision |-> NoDecision]
NoStatus == [n |-> 0, latest |-> <<>>, previous |-> <<>>]
NoVerdict == "none"

(***************************************************************************)
(* CortexRouter.analyze_with_fallback                                      *)
(***************************************************************************)
primary_lane == IF decision.lane = SMART THEN smart_lane ELSE fast_lane

\* line 1195 with the two lanes the wrong way round
fallback_lane_swapped == IF decision.lane = SMART THEN smart_lane ELSE fast_lane

fallback_lane == IF decision.lane = SMART THEN fast_lane ELSE smart_lane

\* an analyze_code whose breaker counts a result the router would reject as a
\* failure of the operation
analyze_code_validates(b, o) ==
    LET r == call(cb[b], now, o.raises \/ ~validate_result(o))
    IN  [breaker |-> r.breaker, raised |-> IF o.raises THEN r.raised ELSE "none",
         invoked |-> r.invoked,
         result |-> IF r.invoked /\ ~o.raises
                    THEN [has_success |-> o.has_success, success |-> o.success,
                          has_result |-> o.has_result, provider |-> b,
                          call |-> Len(attempts) + 1]
                    ELSE NoResult]

\* provider.analyze_code: the operation wrapped in the provider's breaker
analyze_code(b, o) ==
    LET r == call(cb[b], now, o.raises)
    IN  [breaker |-> r.breaker, raised |-> r.raised, invoked |-> r.invoked,
         result |-> IF r.raised = "none"
                    THEN [has_success |-> o.has_success, success |-> o.success,
                          has_result |-> o.has_result, provider |-> b,
                          call |-> Len(attempts) + 1]
                    ELSE NoResult]

Attempt(b, r) ==
    [provider |-> b,
     outcome |-> IF ~r.invoked THEN "blocked"
                 ELSE IF r.raised # "none" THEN "raise"
                 ELSE IF validate_result(r.result) THEN "valid" ELSE "invalid"]

Init ==
    /\ cb = [b \in Providers |-> provider_circuit_breaker(b)]
    /\ now = 0
    /\ pc = "idle"
    /\ decision = NoDecision
    /\ idx = 0
    /\ viable = {}
    /\ attempts = <<>>
    /\ validated = NoResult
    /\ returned = NoResult
    /\ error = "none"
    /\ ndirect = 0
    /\ inflight = {}
    /\ log = <<>>
    /\ request = NoRequest
    /\ seen = NoSeen
    /\ status = NoStatus
    /\ verdict = NoVerdict

\* line 1183: a request arrives and is routed
StartRequest ==
    /\ pc = "idle"
    /\ \E total_tokens \in TokenCounts, has_vision \in BOOLEAN, user_intent \in Intents :
          decision' = route_analysis(total_tokens, has_vision, user_intent)
    /\ \E v \in SUBSET Providers : viable' = v
    /\ pc' = "primary"
    /\ idx' = 1
    /\ attempts' = <<>>
    /\ validated' = NoResult
    /\ returned' = NoResult
    /\ error' = "none"
    /\ UNCHANGED <<cb, now, ndirect>>
    /\ UNCHANGED observers

\* lines 1187-1190: one iteration of the primary-lane loop, up to the return
PrimaryCall ==
    /\ pc = "primary"
    /\ LET b == primary_lane[idx]
       IN  \E o \in OutcomesOf(b) :
             LET r == analyze_code(b, o)
             IN  /\ cb' = [cb EXCEPT ![b] = r.breaker]
                 /\ attempts' = Append(attempts, Attempt(b, r))
                 /\ IF r.raised # "none"
                    THEN \* no handler around the call: the exception leaves the coroutine
                         /\ error' = r.raised
                         /\ pc' = "done"
                         /\ UNCHANGED <<idx, validated>>
                    ELSE IF ~validate_result(r.result)
                    THEN \* continue
                         /\ IF idx < Len(primary_lane)
                            THEN pc' = "primary" /\ idx' = idx + 1
                            ELSE pc' = "fallback" /\ idx' = 1
                         /\ UNCHANGED <<error, validated>>
                    ELSE /\ validated' = r.result
                         /\ pc' = "return"
                         /\ UNCHANGED <<idx, error>>
    /\ UNCHANGED <<now, decision, viable, returned, ndirect>>
    /\ UNCHANGED observers

\* line 1192 as if an exception of the second call were skipped like one of
\* the fallback loop: the request goes on with the next provider
PrimaryReturn_continue ==
    /\ pc = "return"
    /\ LET b == primary_lane[idx]
       IN  \E o \in Outcomes :
             LET r == analyze_code(b, o)
             IN  /\ cb' = [cb EXCEPT ![b] = r.breaker]
                 /\ attempts' = Append(attempts, Attempt(b, r))
                 /\ IF r.raised # "none"
                    THEN /\ IF idx < Len(primary_lane)
                            THEN pc' = "primary" /\ idx' = idx + 1
                            ELSE pc' = "fallback" /\ idx' = 1
                         /\ UNCHANGED <<returned, error>>
                    ELSE /\ returned' = r.result
                         /\ pc' = "done"
                         /\ UNCHANGED <<idx, error>>
    /\ UNCHANGED <<now, decision, viable, validated, ndirect>>
    /\ UNCHANGED observers

\* line 1192: return await provider.analyze_code(...), a second call
PrimaryReturn ==
    /\ pc = "return"
    /\ LET b == primary_lane[idx]
       IN  \E o \in Outcomes :
             LET r == analyze_code(b, o)
             IN  /\ cb' = [cb EXCEPT ![b] = r.breaker]
                 /\ attempts' = Append(attempts, Attempt(b, r))
                 /\ IF r.raised # "none"
                    THEN error' = r.raised /\ UNCHANGED returned
                    ELSE returned' = r.result /\ UNCHANGED error
                 /\ pc' = "done"
    /\ UNCHANGED <<now, decision, idx, viable, validated, ndirect>>
    /\ UNCHANGED observers

\* lines 1195-1206: one iteration of the fallback-lane loop, and the final raise
FallbackCall ==
    /\ pc = "fallback"
    /\ LET b == fallback_lane[idx]
       IN  \E o \in OutcomesOf(b) :
             LET r == analyze_code(b, o)
             IN  /\ cb' = [cb EXCEPT ![b] = r.breaker]
                 /\ attempts' = Append(attempts, Attempt(b, r))
                 /\ IF r.raised = "none" /\ validate_result(r.result)
                    THEN /\ validated' = r.result
                         /\ returned' = r.result
                         /\ pc' = "done"
                         /\ UNCHANGED <<idx, error>>
                    ELSE IF idx < Len(fallback_lane)
                    THEN /\ idx' = idx + 1
                         /\ UNCHANGED <<pc, error, validated, returned>>
                    ELSE /\ error' = "All AI providers failed"
                         /\ pc' = "done"
                         /\ UNCHANGED <<idx, validated, returned>>
    /\ UNCHANGED <<now, decision, viable, ndirect>>
    /\ UNCHANGED observers

\* an operation of a provider whose breaker is one object shared by all
\* the providers
ProviderCall_shared ==
    /\ pc = "idle"
    /\ ndirect < MaxDirectCalls
    /\ \E b \in Providers, raises \in BOOLEAN :
          cb' = [p \in Providers |-> call(cb[p], now, raises).breaker]
    /\ ndirect' = ndirect + 1
    /\ UNCHANGED <<now, pc, decision, idx, viable, attempts, validated, returned, error>>
    /\ UNCHANGED observers

\* the traffic before the request: one earlier operation of a provider
\* (analyze_code, brainstorm, expand_idea, connect_ideas), each of which is
\* one CircuitBreaker.call
ProviderCall ==
    /\ pc = "idle"
    /\ ndirect < MaxDirectCalls
    /\ \E b \in Providers, raises \in BOOLEAN :
          cb' = [cb EXCEPT ![b] = call(cb[b], now, raises).breaker]
    /\ ndirect' = ndirect + 1
    /\ UNCHANGED <<now, pc, decision, idx, viable, attempts, validated, returned, error>>
    /\ UNCHANGED observers

\* a clock whose advance moves the open breakers whose timeout has elapsed
\* to half-open
Tick_expires ==
    /\ now < MaxTime
    /\ now' = now + TickStep
    /\ cb' = [b \in DOMAIN cb |->
                IF cb[b].state = OPEN /\ should_attempt_reset(cb[b], now')
                THEN transition_to_half_open(cb[b]) ELSE cb[b]]
    /\ UNCHANGED <<pc, decision, idx, viable, attempts, validated, returned, error, ndirect>>
    /\ UNCHANGED observers

\* time.time() advances
Tick ==
    /\ now < MaxTime
    /\ now' = now + TickStep
    /\ UNCHANGED <<cb, pc, decision, idx, viable, attempts, validated, returned, error, ndirect>>
    /\ UNCHANGED observers

Next ==
    \/ StartRequest
    \/ PrimaryCall
    \/ PrimaryReturn
    \/ FallbackCall
    \/ ProviderCall
    \/ Tick

Spec == Init /\ [][Next]_vars

(***************************************************************************)
(* Two calls of route_analysis on one router, with provider calls and time *)
(* before and between them                                                 *)
(***************************************************************************)
\* CortexRouter.route_analysis is called: the first call is remembered in seen,
\* and the later calls are those that repeat its inputs
Decide ==
    /\ pc = "idle"
    /\ \E inputs \in Requests :
          /\ seen = NoSeen \/ inputs = seen.request.inputs
          /\ request' = Request(inputs)
          /\ decision' = route_analysis(inputs.total_tokens, inputs.has_vision,
                                        inputs.user_intent)
    /\ seen' = IF seen = NoSeen THEN [request |-> request', decision |-> decision'] ELSE seen
    /\ UNCHANGED <<cb, now, pc, idx, viable, attempts, validated, returned, error, ndirect>>
    /\ UNCHANGED <<inflight, log, status, verdict>>

DecideNext ==
    \/ Decide
    \/ ProviderCall
    \/ Tick

DecideSpec == Init /\ [][DecideNext]_vars

(***************************************************************************)
(* route_analysis on its own: the arguments as the caller passes them      *)
(***************************************************************************)
\* the codebase argument, as the lengths of the contents of its files
Codebases ==
    {<<>>, <<context_limit>>, <<context_limit + 1>>,
     <<context_limit \div 2, context_limit \div 2>>,
     <<context_limit \div 2, context_limit \div 2 + 1>>}

\* the length of system_doc (0 for None), which route_analysis never reads
SystemDocs == {0, context_limit + 1}

\* input_data.get("has_vision"): the value of the key, None for no such key
VisionValues == {"None", "False", "True", "0", "1"}

\* bool(v) of the Python value written v
truthy_only_true(v) == v = "True"

truthy(v) == v \in {"True", "1", "'ok'"}

RECURSIVE Sum(_)
Sum(s) == IF s = <<>> THEN 0 ELSE Head(s) + Sum(Tail(s))

\* line 1114 counting the files in place of their characters
total_tokens_files(codebase) == Len(codebase)

\* line 1114: sum(len(content) for content in codebase.values())
total_tokens(codebase) == Sum(codebase)

\* reason.lower() cut into words
reason_words(reason) ==
    CASE reason = "Large context size requires SMART lane" ->
            {"large", "context", "size", "requires", "smart", "lane"}
      [] reason = "Vision capabilities required" -> {"vision", "capabilities", "required"}
      [] reason = "User requested strong analysis" -> {"user", "requested", "strong", "analysis"}
      [] reason = "User requested local provider" -> {"user", "requested", "local", "provider"}
      [] reason = "User requested cheap provider" -> {"user", "requested", "cheap", "provider"}
      [] reason = "Default FAST lane" -> {"default", "fast", "lane"}
      [] OTHER -> {}

RouteArgs ==
    [codebase : Codebases, has_vision : VisionValues, system_doc : SystemDocs,
     user_intent : Intents]

RouteInit ==
    /\ cb = [b \in Providers |-> provider_circuit_breaker(b)]
    /\ now = 0
    /\ pc = "idle"
    /\ request \in RouteArgs
    /\ decision = NoDecision
    /\ idx = 0
    /\ viable = {}
    /\ attempts = <<>>
    /\ validated = NoResult
    /\ returned = NoResult
    /\ error = "none"
    /\ ndirect = 0
    /\ inflight = {}
    /\ log = <<>>
    /\ seen = NoSeen
    /\ status = NoStatus
    /\ verdict = NoVerdict

\* route_analysis(codebase, input_data, system_doc, user_intent) is called
RouteAnalysis ==
    /\ decision = NoDecision
    /\ decision' = route_analysis(total_tokens(request.codebase), truthy(request.has_vision),
                                  request.user_intent)
    /\ UNCHANGED <<cb, now, pc, idx, viable, attempts, validated, returned, error, ndirect>>
    /\ UNCHANGED <<inflight, log, request, seen, status, verdict>>

RouteNext == RouteAnalysis

RouteSpec == RouteInit /\ [][RouteNext]_vars

(***************************************************************************)
(* _validate_result on its own: the dict as a provider returns it          *)
(***************************************************************************)
\* the Python values under the keys "success" and "result"
SuccessValues == {"True", "False", "None", "1", "0", "'ok'", "''"}
PayloadValues == {"'Analysis complete'", "''", "[]", "None"}

\* a dict: which of the two keys it has, and their values
Dicts ==
    [has_success : BOOLEAN, success : SuccessValues,
     has_result : BOOLEAN, result : PayloadValues]

\* a reading of the dict that takes an empty payload for a missing one
as_result_nonempty(d) ==
    [has_success |-> d.has_success, success |-> d.has_success /\ truthy(d.success),
     has_result |-> d.has_result /\ d.result \notin {"''", "[]", "None"},
     provider |-> "none", call |-> 0]

\* what lines 1217-1218 read of the dict: "success" in result, "result" in
\* result, and the truth of result.get("success")
as_result(d) ==
    [has_success |-> d.has_success, success |-> d.has_success /\ truthy(d.success),
     has_result |-> d.has_result, provider |-> "none", call |-> 0]

ValidateInit ==
    /\ cb = [b \in Providers |-> provider_circuit_breaker(b)]
    /\ now = 0
    /\ pc = "idle"
    /\ request = NoRequest
    /\ decision = NoDecision
    /\ idx = 0
    /\ viable = {}
    /\ attempts = <<>>
    /\ validated = NoResult
    /\ returned \in Dicts
    /\ error = "none"
    /\ ndirect = 0
    /\ inflight = {}
    /\ log = <<>>
    /\ seen = NoSeen
    /\ status = NoStatus
    /\ verdict = NoVerdict

\* _validate_result(result) is called: verdict is the truth of what it returns
Validate ==
    /\ verdict = NoVerdict
    /\ verdict' = IF validate_result(as_result(returned)) THEN "truthy" ELSE "falsy"
    /\ UNCHANGED <<cb, now, pc, decision, idx, viable, attempts, validated, returned, error,
                   ndirect>>
    /\ UNCHANGED <<inflight, log, request, seen, status>>

ValidateNext == Validate

ValidateSpec == ValidateInit /\ [][ValidateNext]_vars

(***************************************************************************)
(* get_provider_status, with provider calls and time before and between    *)
(* its calls                                                               *)
(***************************************************************************)
MaxStatusCalls == 2

\* self.lane of each provider class
provider_lane(b) ==
    CASE b = "gemini" -> FAST
      [] b = "claude" -> SMART
      [] b = "openai" -> FAST
      [] b = "ollama" -> FAST
      [] b = "groq" -> FAST

Failures(h) == Cardinality({i \in DOMAIN h : ~h[i]})

\* round(failure_rate, 2) in hundredths: failures / len(history), 0.0 for an
\* empty history. Halves are rounded up here; up to 7 calls no quotient has one.
failure_rate(c) ==
    IF c.call_history = <<>> THEN 0
    ELSE (200 * Failures(c.call_history) + Len(c.call_history)) \div (2 * Len(c.call_history))

\* lines 1226-1235: the dict built over fast_lane + smart_lane
get_provider_status ==
    [b \in Range(fast_lane \o smart_lane) |->
        [lane |-> provider_lane(b),
         circuit_state |-> cb[b].state,
         failure_rate |-> failure_rate(cb[b])]]

\* a get_provider_status that clears the histories it has read
GetProviderStatus_clears ==
    /\ pc = "idle"
    /\ status.n < MaxStatusCalls
    /\ cb' = [b \in DOMAIN cb |-> [cb[b] EXCEPT !.call_history = <<>>]]
    /\ status' = [n |-> status.n + 1,
                  latest |-> [entries |-> get_provider_status, calls |-> ndirect,
                              at |-> now, before |-> cb, after |-> cb'],
                  previous |-> status.latest]
    /\ UNCHANGED <<now, pc, decision, idx, viable, attempts, validated, returned, error,
                   ndirect>>
    /\ UNCHANGED <<inflight, log, request, seen, verdict>>

\* get_provider_status is called: status keeps its answer, the number of
\* provider calls made so far, the time, and the breakers before and after
\* the call
GetProviderStatus ==
    /\ pc = "idle"
    /\ status.n < MaxStatusCalls
    /\ cb' = cb
    /\ status' = [n |-> status.n + 1,
                  latest |-> [entries |-> get_provider_status, calls |-> ndirect,
                              at |-> now, before |-> cb, after |-> cb'],
                  previous |-> status.latest]
    /\ UNCHANGED <<now, pc, decision, idx, viable, attempts, validated, returned, error,
                   ndirect>>
    /\ UNCHANGED <<inflight, log, request, seen, verdict>>

StatusNext ==
    \/ GetProviderStatus
    \/ ProviderCall
    \/ Tick

StatusSpec == Init /\ [][StatusNext]_vars

(***************************************************************************)
(* One CircuitBreaker alone, as the tests of TestCircuitBreaker drive it:  *)
(* CircuitBreaker("test", config) with a small config, calls whose         *)
(* function returns or raises, reset(), and time passing.  CircuitBreaker  *)
(* .call is split at its await.                                            *)
(***************************************************************************)
MaxFailureThreshold == 3
MaxSuccessThreshold == 2
TestTimeout == 2
TestWindow == 2
MaxRun == 5
MaxExecuted == 4
MaxClock == 6

test == "test"

\* reset without line 179
reset_keeps_history(c) ==
    [c EXCEPT !.state = CLOSED, !.failure_count = 0, !.success_count = 0, !.opened_at = None]

\* CircuitBreaker.reset
reset(c) ==
    [c EXCEPT !.state = CLOSED, !.failure_count = 0, !.success_count = 0,
              !.opened_at = None, !.call_history = <<>>]

Max(a, b) == IF a >= b THEN a ELSE b

\* a retry_after that counts the elapsed time from 0
retry_after_since_epoch(c, t) == Max(0, c.config.timeout - t)

\* line 95: max(0, timeout - (time.time() - (self._opened_at or 0)))
retry_after(c, t) ==
    Max(0, c.config.timeout - (t - (IF c.opened_at = None THEN 0 ELSE c.opened_at)))

\* what the awaited function does: it returns a value or raises an exception
NoValue == "none"
FuncOutcomes == {[raises |-> FALSE, value |-> "success"], [raises |-> TRUE, value |-> "Failed"]}

\* call() up to the await that counts a blocked call as a failure
enter_counts_blocked(c, t) ==
    IF blocked(c, t)
    THEN [breaker |-> [c EXCEPT !.call_history = deque_append(c.call_history, FALSE,
                                                              c.config.window_size)],
          invoked |-> FALSE, raised |-> "CircuitBreakerError",
          retry_after |-> retry_after(c, t)]
    ELSE [breaker |-> admit(c, t), invoked |-> TRUE, raised |-> NoValue, retry_after |-> 0]

\* lines 91-96: call() up to the await. A blocked call raises CircuitBreakerError
\* and assigns nothing; an admitted one may first move the breaker to half-open
enter(c, t) ==
    IF blocked(c, t)
    THEN [breaker |-> c, invoked |-> FALSE, raised |-> "CircuitBreakerError",
          retry_after |-> retry_after(c, t)]
    ELSE [breaker |-> admit(c, t), invoked |-> TRUE, raised |-> NoValue, retry_after |-> 0]

\* lines 98-104 after the await, by a wrapper that raises its own error
\* in place of the function's
complete_wrapped(c, t, o) ==
    IF o.raises
    THEN [breaker |-> on_failure(c, t), returned |-> NoValue, raised |-> "CircuitBreakerError"]
    ELSE [breaker |-> on_success(c), returned |-> o.value, raised |-> NoValue]

\* lines 98-104 after the await: bookkeeping, then return result / raise
complete(c, t, o) ==
    IF o.raises
    THEN [breaker |-> on_failure(c, t), returned |-> NoValue, raised |-> o.value]
    ELSE [breaker |-> on_success(c), returned |-> o.value, raised |-> NoValue]

\* one entry of the log
Event(kind, func, gave, before, after) ==
    [kind |-> kind,             \* "blocked", "returned", "raised" or "reset"
     func |-> func,             \* what func did
     gave |-> gave,             \* what call() returned or raised, and retry_after
     at |-> now,                \* time.time() of the event
     before |-> before,         \* the breaker before the event
     after |-> after]           \* the breaker after the event

NotInvoked == [raises |-> FALSE, value |-> "not invoked"]
NotACall == [returned |-> NoValue, raised |-> NoValue, retry_after |-> 0]

\* the last n elements of a sequence, all of them if it has fewer
LastN(q, n) == IF Len(q) <= n THEN q ELSE SubSeq(q, Len(q) - n + 1, Len(q))

\* the log after event e: the event itself, the run of consecutive events of
\* its kind that it ends (with the breaker the run started from; its length is
\* counted up to MaxRun, which stands for MaxRun or more), and the time and
\* the origin of the latest change of the state to open, and the outcomes of
\* the calls whose func ran since construction or the last reset, in order
\* (TRUE for a return), the latest MaxExecuted of them
Logged(e) ==
    [last |-> e,
     run |-> IF log.run.kind = e.kind
             THEN [log.run EXCEPT !.n = IF log.run.n < MaxRun THEN log.run.n + 1 ELSE MaxRun]
             ELSE [kind |-> e.kind, n |-> 1, start |-> e.before],
     opened |-> IF e.before.state # OPEN /\ e.after.state = OPEN
                THEN e.at ELSE log.opened,
     opened_from |-> IF e.before.state # OPEN /\ e.after.state = OPEN
                     THEN e.before.state ELSE log.opened_from,
     executed |-> IF e.kind = "reset" THEN <<>>
                  ELSE IF e.kind \in {"returned", "raised"}
                  THEN LastN(Append(log.executed, ~e.func.raises), MaxExecuted)
                  ELSE log.executed]

BreakerInit ==
    /\ \E ft \in 1..MaxFailureThreshold, st \in 1..MaxSuccessThreshold :
          LET c == CircuitBreaker([failure_threshold |-> ft, success_threshold |-> st,
                                   timeout |-> TestTimeout, window_size |-> TestWindow])
          IN  /\ cb = [b \in {test} |-> c]
              /\ log = [last |-> [kind |-> "none", func |-> NotInvoked, gave |-> NotACall,
                                  at |-> 0, before |-> c, after |-> c],
                        run |-> [kind |-> "none", n |-> 0, start |-> c],
                        opened |-> None,
                        opened_from |-> "none",
                        executed |-> <<>>]
    /\ now = 0
    /\ pc = "idle"
    /\ decision = NoDecision
    /\ idx = 0
    /\ viable = {}
    /\ attempts = <<>>
    /\ validated = NoResult
    /\ returned = NoResult
    /\ error = "none"
    /\ ndirect = 0
    /\ inflight = {}
    /\ request = NoRequest
    /\ seen = NoSeen
    /\ status = NoStatus
    /\ verdict = NoVerdict

router == <<pc, decision, idx, viable, attempts, validated, returned, error, ndirect,
            request, seen, status, verdict>>

\* a call() that closes an open breaker whose timeout has elapsed
CallEnter_closes ==
    /\ inflight = {}
    /\ LET e0 == enter(cb[test], now)
           e == IF cb[test].state = OPEN /\ e0.invoked
                THEN [e0 EXCEPT !.breaker = transition_to_closed(cb[test])] ELSE e0
       IN  /\ cb' = [cb EXCEPT ![test] = e.breaker]
           /\ IF e.invoked
              THEN /\ inflight' = {[entered_at |-> now, entered |-> cb[test],
                                    invoked |-> e.breaker]}
                   /\ UNCHANGED log
              ELSE /\ log' = Logged(
                        Event("blocked", NotInvoked,
                              [returned |-> NoValue, raised |-> e.raised,
                               retry_after |-> e.retry_after],
                              cb[test], e.breaker))
                   /\ UNCHANGED inflight
    /\ UNCHANGED now
    /\ UNCHANGED router

\* lines 91-96 and the call of func in line 99: call() is entered
CallEnter ==
    /\ inflight = {}
    /\ LET e == enter(cb[test], now)
       IN  /\ cb' = [cb EXCEPT ![test] = e.breaker]
           /\ IF e.invoked
              THEN /\ inflight' = {[entered_at |-> now, entered |-> cb[test],
                                    invoked |-> e.breaker]}
                   /\ UNCHANGED log
              ELSE /\ log' = Logged(
                        Event("blocked", NotInvoked,
                              [returned |-> NoValue, raised |-> e.raised,
                               retry_after |-> e.retry_after],
                              cb[test], e.breaker))
                   /\ UNCHANGED inflight
    /\ UNCHANGED now
    /\ UNCHANGED router

\* lines 99-104: func returns or raises, and call() with it
CallComplete ==
    /\ \E c \in inflight, o \in FuncOutcomes :
          LET r == complete(cb[test], now, o)
          IN  /\ cb' = [cb EXCEPT ![test] = r.breaker]
              /\ inflight' = inflight \ {c}
              /\ log' = Logged(
                    Event(IF o.raises THEN "raised" ELSE "returned", o,
                          [returned |-> r.returned, raised |-> r.raised, retry_after |-> 0],
                          cb[test], r.breaker))
    /\ UNCHANGED now
    /\ UNCHANGED router

\* CircuitBreaker.reset, called at any moment
Reset ==
    /\ cb' = [cb EXCEPT ![test] = reset(cb[test])]
    /\ log' = Logged(
          Event("reset", NotInvoked, NotACall,
                cb[test], reset(cb[test])))
    /\ UNCHANGED <<now, inflight>>
    /\ UNCHANGED router

\* time.sleep: one second passes
Sleep ==
    /\ now < MaxClock
    /\ now' = now + 1
    /\ UNCHANGED <<cb, inflight, log>>
    /\ UNCHANGED router

BreakerNext ==
    \/ CallEnter
    \/ CallComplete
    \/ Reset
    \/ Sleep

BreakerSpec == BreakerInit /\ [][BreakerNext]_vars

(***************************************************************************)
(* The breaker under calls that keep coming, and a func that stops failing *)
(***************************************************************************)
\* the func passed to call() is replaced by one that always returns
Heal ==
    /\ pc = "idle"
    /\ pc' = "healthy"
    /\ UNCHANGED <<cb, now, inflight, log, decision, idx, viable, attempts, validated,
                   returned, error, ndirect, request, seen, status, verdict>>

\* the log that keeps the latest event only
LoggedLast(e) == [log EXCEPT !.last = e]

\* lines 91-96 and the call of func in line 99: call() is entered
LiveEnter ==
    /\ inflight = {}
    /\ LET e == enter(cb[test], now)
       IN  /\ cb' = [cb EXCEPT ![test] = e.breaker]
           /\ IF e.invoked
              THEN /\ inflight' = {[entered_at |-> now, entered |-> cb[test],
                                    invoked |-> e.breaker]}
                   /\ UNCHANGED log
              ELSE /\ log' = LoggedLast(
                        Event("blocked", NotInvoked,
                              [returned |-> NoValue, raised |-> e.raised,
                               retry_after |-> e.retry_after],
                              cb[test], e.breaker))
                   /\ UNCHANGED inflight
    /\ UNCHANGED now
    /\ UNCHANGED router

\* lines 99-104: func returns or raises, and call() with it. func raises only
\* before it is replaced, and only while the clock can still run past the
\* timeout of the opening it may cause
LiveComplete ==
    /\ \E c \in inflight, o \in FuncOutcomes :
          LET r == complete(cb[test], now, o)
          IN  /\ o.raises => pc = "idle" /\ now + TestTimeout <= MaxClock
              /\ cb' = [cb EXCEPT ![test] = r.breaker]
              /\ inflight' = inflight \ {c}
              /\ log' = LoggedLast(
                    Event(IF o.raises THEN "raised" ELSE "returned", o,
                          [returned |-> r.returned, raised |-> r.raised, retry_after |-> 0],
                          cb[test], r.breaker))
    /\ UNCHANGED now
    /\ UNCHANGED router

\* CircuitBreaker.reset, called at any moment
LiveReset ==
    /\ cb' = [cb EXCEPT ![test] = reset(cb[test])]
    /\ log' = LoggedLast(
          Event("reset", NotInvoked, NotACall,
                cb[test], reset(cb[test])))
    /\ UNCHANGED <<now, inflight>>
    /\ UNCHANGED router

LiveNext ==
    \/ LiveEnter
    \/ LiveComplete
    \/ LiveReset
    \/ Sleep
    \/ Heal

\* calls keep being made, every awaited func finishes, and time passes
LiveSpec ==
    /\ BreakerInit
    /\ [][LiveNext]_vars
    /\ WF_vars(LiveEnter)
    /\ WF_vars(LiveComplete)
    /\ WF_vars(Sleep)

(***************************************************************************)
(* Two breakers of one configuration, called in step                       *)
(***************************************************************************)
twin == "twin"
Twins == {test, twin}

\* what drives a breaker: everything it holds but the call history
driving(c) ==
    [config |-> c.config, state |-> c.state, failure_count |-> c.failure_count,
     success_count |-> c.success_count, opened_at |-> c.opened_at]

TwinInit ==
    /\ \E ft \in 1..MaxFailureThreshold, st \in 1..MaxSuccessThreshold :
          cb = [b \in Twins |->
                  CircuitBreaker([failure_threshold |-> ft, success_threshold |-> st,
                                  timeout |-> TestTimeout, window_size |-> TestWindow])]
    /\ log = <<>>
    /\ now = 0
    /\ pc = "idle"
    /\ decision = NoDecision
    /\ idx = 0
    /\ viable = {}
    /\ attempts = <<>>
    /\ validated = NoResult
    /\ returned = NoResult
    /\ error = "none"
    /\ ndirect = 0
    /\ inflight = {}
    /\ request = NoRequest
    /\ seen = NoSeen
    /\ status = NoStatus
    /\ verdict = NoVerdict

\* one of the two breakers is called on its own
TwinCall ==
    /\ pc = "idle"
    /\ \E b \in Twins, raises \in BOOLEAN :
          cb' = [cb EXCEPT ![b] = call(cb[b], now, raises).breaker]
    /\ UNCHANGED <<now, inflight, log>>
    /\ UNCHANGED router

\* the two breakers agree on all but their histories: from here on they are
\* called together; log keeps the breakers as they are now
Pair ==
    /\ pc = "idle"
    /\ driving(cb[test]) = driving(cb[twin])
    /\ cb[test].call_history # cb[twin].call_history
    /\ pc' = "paired"
    /\ log' = <<cb>>
    /\ UNCHANGED <<cb, now, inflight, decision, idx, viable, attempts, validated,
                   returned, error, ndirect, request, seen, status, verdict>>

\* both breakers are called at the same time with funcs of the same outcome
Lockstep ==
    /\ pc = "paired"
    /\ \E raises \in BOOLEAN :
          cb' = [b \in Twins |-> call(cb[b], now, raises).breaker]
    /\ UNCHANGED <<now, inflight, log>>
    /\ UNCHANGED router

TwinNext ==
    \/ TwinCall
    \/ Pair
    \/ Lockstep
    \/ Sleep

TwinSpec == TwinInit /\ [][TwinNext]_vars

(***************************************************************************)
(* One breaker under calls that overlap while func is awaited              *)
(***************************************************************************)
MaxInflight == 2

NoCall == [id |-> 0, state |-> "none", opened_at |-> None]

\* a call whose func is awaited: the state and opened_at of the breaker as
\* the admission of the call left them
AwaitedCall(c) ==
    [id |-> CHOOSE i \in 1..MaxInflight :
               /\ \A k \in inflight : k.id # i
               /\ \A j \in 1..(i - 1) : \E k \in inflight : k.id = j,
     state |-> c.state, opened_at |-> c.opened_at]

\* the latest thing done to the breaker: what it was, the call that did it,
\* and the breaker before it
Did(kind, c, before) == [last |-> [kind |-> kind, call |-> c, before |-> before]]

ConcInit ==
    /\ \E ft \in 1..MaxFailureThreshold, st \in 1..MaxSuccessThreshold :
          LET c == CircuitBreaker([failure_threshold |-> ft, success_threshold |-> st,
                                   timeout |-> TestTimeout, window_size |-> TestWindow])
          IN  /\ cb = [b \in {test} |-> c]
              /\ log = Did("none", NoCall, c)
    /\ now = 0
    /\ pc = "idle"
    /\ decision = NoDecision
    /\ idx = 0
    /\ viable = {}
    /\ attempts = <<>>
    /\ validated = NoResult
    /\ returned = NoResult
    /\ error = "none"
    /\ ndirect = 0
    /\ inflight = {}
    /\ request = NoRequest
    /\ seen = NoSeen
    /\ status = NoStatus
    /\ verdict = NoVerdict

\* a call() that, in half-open, invokes func only when no call is in flight
ConcEnter_single_trial ==
    /\ Cardinality(inflight) < MaxInflight
    /\ LET e == enter(cb[test], now)
           invoked == e.invoked /\ (e.breaker.state = HALF_OPEN => inflight = {})
       IN  /\ cb' = [cb EXCEPT ![test] = IF invoked THEN e.breaker ELSE cb[test]]
           /\ IF invoked
              THEN /\ inflight' = inflight \cup {AwaitedCall(e.breaker)}
                   /\ log' = Did("admitted", AwaitedCall(e.breaker), cb[test])
              ELSE /\ log' = Did("blocked", NoCall, cb[test])
                   /\ UNCHANGED inflight
    /\ UNCHANGED now
    /\ UNCHANGED router

\* lines 91-96 and the call of func in line 99: call() is entered while other
\* calls may be awaiting their func
ConcEnter ==
    /\ Cardinality(inflight) < MaxInflight
    /\ LET e == enter(cb[test], now)
       IN  /\ cb' = [cb EXCEPT ![test] = e.breaker]
           /\ IF e.invoked
              THEN /\ inflight' = inflight \cup {AwaitedCall(e.breaker)}
                   /\ log' = Did("admitted", AwaitedCall(e.breaker), cb[test])
              ELSE /\ log' = Did("blocked", NoCall, cb[test])
                   /\ UNCHANGED inflight
    /\ UNCHANGED now
    /\ UNCHANGED router

\* a completion whose failure opens the breaker again when it is open
ConcComplete_reopens ==
    /\ \E c \in inflight, o \in FuncOutcomes :
          LET r == complete(cb[test], now, o)
          IN  /\ cb' = [cb EXCEPT ![test] =
                          IF o.raises /\ cb[test].state = OPEN
                          THEN transition_to_open(r.breaker, now) ELSE r.breaker]
              /\ inflight' = inflight \ {c}
              /\ log' = Did(IF o.raises THEN "raised" ELSE "returned", c, cb[test])
    /\ UNCHANGED now
    /\ UNCHANGED router

\* lines 99-104: the func of one of the awaiting calls returns or raises, and
\* call() with it
ConcComplete ==
    /\ \E c \in inflight, o \in FuncOutcomes :
          LET r == complete(cb[test], now, o)
          IN  /\ cb' = [cb EXCEPT ![test] = r.breaker]
              /\ inflight' = inflight \ {c}
              /\ log' = Did(IF o.raises THEN "raised" ELSE "returned", c, cb[test])
    /\ UNCHANGED now
    /\ UNCHANGED router

\* a reset that sets the state only
ConcReset_state_only ==
    /\ cb' = [cb EXCEPT ![test] = [cb[test] EXCEPT !.state = CLOSED]]
    /\ log' = Did("reset", NoCall, cb[test])
    /\ UNCHANGED <<now, inflight>>
    /\ UNCHANGED router

\* CircuitBreaker.reset, called at any moment
ConcReset ==
    /\ cb' = [cb EXCEPT ![test] = reset(cb[test])]
    /\ log' = Did("reset", NoCall, cb[test])
    /\ UNCHANGED <<now, inflight>>
    /\ UNCHANGED router

ConcNext ==
    \/ ConcEnter
    \/ ConcComplete
    \/ ConcReset
    \/ Sleep

ConcSpec == ConcInit /\ [][ConcNext]_vars

(***************************************************************************)
(* The request as the attempts log shows it                                *)
(***************************************************************************)
\* the fallback chain of the running request: the decided lane, then the other
try_order ==
    IF decision.lane = SMART THEN smart_lane \o fast_lane ELSE fast_lane \o smart_lane

Done == pc = "done"
Attempted(b) == \E i \in DOMAIN attempts : attempts[i].provider = b
FirstAttempt(b) == attempts[CHOOSE i \in DOMAIN attempts :
                        /\ attempts[i].provider = b
                        /\ \A j \in 1..(i - 1) : attempts[j].provider # b]
\* how often the operation of b was really invoked in this request
Invocations(b) ==
    Cardinality({i \in DOMAIN attempts :
                    attempts[i].provider = b /\ attempts[i].outcome # "blocked"})
LastAttempt == attempts[Len(attempts)]

\* b returns a valid result when invoked and its breaker admits the call
WouldSucceed(b) ==
    /\ b \in viable
    /\ IF Attempted(b) THEN FirstAttempt(b).outcome # "blocked" ELSE ~blocked(cb[b], now)

\* b raises, is blocked by its open breaker, or returns an invalid result
Fails(b) == ~WouldSucceed(b)

(***************************************************************************)
(* Claims                                                                  *)
(***************************************************************************)

\* C1: when a call to a provider of the primary lane raises (CircuitBreakerError
\* or an error of the operation), analyze_with_fallback does not end with that
\* error: the request goes on with the next provider.
C1_PrimaryErrorContinues ==
    (/\ attempts # <<>>
     /\ LastAttempt.provider \in Range(primary_lane)
     /\ LastAttempt.outcome \in {"blocked", "raise"})
    => (pc \in {"primary", "fallback"} /\ error = "none")

\* C2: if some provider of either lane would answer with a valid result and its
\* breaker admits the call, the finished request has returned a valid result.
C2_ViableProviderGivesResult ==
    (Done /\ \E b \in Providers : WouldSucceed(b))
    => (error = "none" /\ validate_result(returned))

\* C3: a finished request that raised, raised "All AI providers failed", and
\* only after every provider of both lanes was tried and failed.
C3_OnlyAggregateErrorPropagates ==
    (Done /\ error # "none")
    => /\ error = "All AI providers failed"
       /\ \A b \in Providers : Attempted(b) /\ FirstAttempt(b).outcome # "valid"

\* C4: the result a request returns is the very result _validate_result accepted.
C4_ReturnedIsValidated ==
    (Done /\ error = "none") => (returned = validated /\ validate_result(returned))

\* C5: in one request the operation of each provider is invoked at most once,
\* and a request that returns a result invoked the returning provider exactly once.
C5_AtMostOneInvocation ==
    /\ \A b \in Providers : Invocations(b) <= 1
    /\ (Done /\ error = "none") => Invocations(returned.provider) = 1

\* C6: if the first provider of the decided lane returns a valid result, no
\* other provider is called in that request.
C6_ShortCircuit ==
    (/\ attempts # <<>>
     /\ attempts[1].provider = primary_lane[1]
     /\ attempts[1].outcome = "valid")
    => \A i \in DOMAIN attempts : attempts[i].provider = primary_lane[1]

C6_Witness ==
    /\ Done
    /\ error = "none"
    /\ attempts[1].provider = primary_lane[1]
    /\ attempts[1].outcome = "valid"
    /\ \A b \in Providers \ {primary_lane[1]} : ~Attempted(b)

\* C7: a provider whose result fails the validator is skipped, and the request
\* returns the result of the first later call that gave a valid result.
C7_SkipOnInvalid ==
    Done =>
      \A i \in DOMAIN attempts : \A j \in DOMAIN attempts :
        (/\ i < j
         /\ attempts[i].outcome = "invalid"
         /\ attempts[j].outcome = "valid"
         /\ \A k \in (i + 1)..(j - 1) : attempts[k].outcome # "valid")
        => (error = "none" /\ returned.provider = attempts[j].provider /\ returned.call = j)

\* C8: when every provider of the primary lane fails, a provider of the other
\* lane has been attempted by the time the request is finished.
C8_CrossLaneFallback ==
    (Done /\ \A b \in Range(primary_lane) : Fails(b))
    => \E b \in Range(fallback_lane) : Attempted(b)

\* C9: when every provider of both lanes fails, the request raises
\* "All AI providers failed" and returns nothing.
C9_TotalExhaustion ==
    (Done /\ \A b \in Providers : Fails(b))
    => (error = "All AI providers failed" /\ returned = NoResult)

\* C10: providers are tried in the order primary lane then other lane, each lane
\* in its list order from its first provider; no provider of the other lane is
\* tried before all of the primary lane; at most |fast| + |smart| calls are made.
C10_TryOrder ==
    /\ \A i \in DOMAIN attempts :
         attempts[i].provider =
            try_order[Cardinality({attempts[j].provider : j \in 1..i})]
    /\ \A i \in DOMAIN attempts :
         attempts[i].provider \notin Range(primary_lane)
         => \A b \in Range(primary_lane) : \E j \in 1..(i - 1) : attempts[j].provider = b
    /\ Len(attempts) <= Len(fast_lane) + Len(smart_lane)

C10_Witness ==
    /\ Done
    /\ decision.lane = SMART
    /\ Len(attempts) = Len(try_order)
    /\ \A i \in DOMAIN attempts : attempts[i].provider = try_order[i]

(***************************************************************************)
(* One circuit breaker, as the log shows it                                *)
(***************************************************************************)
\* C11: starting from a closed breaker with failure counter 0, n consecutive
\* failed calls with n below failure_threshold leave it closed with the counter
\* at n, and the failure_threshold-th one opens it with both counters 0.
C11_FailureThreshold ==
    LET r == log.run
        c == log.last.after
    IN  (r.kind = "raised" /\ r.start.state = CLOSED /\ r.start.failure_count = 0) =>
          /\ r.n < c.config.failure_threshold =>
                c.state = CLOSED /\ c.failure_count = r.n
          /\ r.n = c.config.failure_threshold =>
                c.state = OPEN /\ c.failure_count = 0 /\ c.success_count = 0

C11_Witness ==
    /\ log.run.kind = "raised"
    /\ log.run.start.state = CLOSED
    /\ log.run.start.failure_count = 0
    /\ log.run.n = MaxFailureThreshold
    /\ log.last.before.failure_count = MaxFailureThreshold - 1
    /\ log.last.after.config.failure_threshold = MaxFailureThreshold
    /\ log.last.after.state = OPEN

\* C12: a successful call on a closed breaker sets the failure counter to 0 and
\* leaves the breaker closed, so that the counter of a closed breaker after a
\* failed call is the number of failed calls since the last success, and the
\* breaker opens only when that number is failure_threshold.
C12_SuccessClearsFailures ==
    LET e == log.last
    IN  /\ (e.kind = "returned" /\ e.before.state = CLOSED) =>
              e.after.state = CLOSED /\ e.after.failure_count = 0
        /\ (e.kind = "raised" /\ e.before.state = CLOSED) =>
              \/ e.after.state = CLOSED /\ e.after.failure_count = log.run.n
              \/ e.after.state = OPEN /\ log.run.n = e.after.config.failure_threshold

C12_Witness ==
    /\ log.last.kind = "raised"
    /\ log.run.n = 1
    /\ log.last.before.state = CLOSED
    /\ log.last.before.call_history = <<FALSE, TRUE>>
    /\ log.last.after.state = CLOSED
    /\ log.last.after.failure_count = 1

\* C13: a call entered while the breaker is open and less than timeout has
\* elapsed since it opened raises CircuitBreakerError, does not invoke the
\* function and leaves state, counters, opened_at and history as they were;
\* no call entered then is invoked.
C13_OpenBlocks ==
    /\ log.last.kind = "blocked" =>
          /\ log.last.before.state = OPEN
          /\ log.last.at - log.last.before.opened_at < log.last.before.config.timeout
          /\ log.last.func = NotInvoked
          /\ log.last.gave.raised = "CircuitBreakerError"
          /\ log.last.after = log.last.before
    /\ \A c \in inflight :
          ~(/\ c.entered.state = OPEN
            /\ c.entered_at - c.entered.opened_at < c.entered.config.timeout)

C13_Witness ==
    /\ log.last.kind = "blocked"
    /\ log.last.before.call_history # <<>>
    /\ log.last.at > log.last.before.opened_at
    /\ log.last.gave.retry_after > 0

\* C14: a call entered while the breaker is open and at least timeout has
\* elapsed moves the breaker to half-open with success counter 0 before the
\* function is invoked; no function is invoked on an open breaker.
C14_TimeoutAdmitsHalfOpen ==
    /\ \A c \in inflight :
          /\ c.invoked.state # OPEN
          /\ c.entered.state = OPEN =>
                /\ c.entered_at - c.entered.opened_at >= c.entered.config.timeout
                /\ c.invoked.state = HALF_OPEN
                /\ c.invoked.success_count = 0

C14_Witness ==
    \E c \in inflight :
        /\ c.entered.state = OPEN
        /\ c.invoked.state = HALF_OPEN
        /\ cb[test].state = HALF_OPEN

\* C15: a failed call on a half-open breaker opens it at once, with success
\* counter 0 and opened_at the time of that failure, and a call is admitted
\* again only when the full timeout has elapsed since that failure.
C15_HalfOpenFailureReopens ==
    /\ (log.last.kind = "raised" /\ log.last.before.state = HALF_OPEN) =>
          /\ log.last.after.state = OPEN
          /\ log.last.after.success_count = 0
          /\ log.last.after.opened_at = log.last.at
    /\ \A c \in inflight :
          (c.entered.state = OPEN /\ log.opened_from = HALF_OPEN) =>
              c.entered_at - log.opened >= c.entered.config.timeout

C15_Witness ==
    /\ log.last.kind = "raised"
    /\ log.last.before.state = HALF_OPEN
    /\ log.last.before.success_count = 1
    /\ log.last.at > log.last.before.opened_at
    /\ log.opened_from = HALF_OPEN
    /\ \E c \in inflight : c.entered.state = OPEN

\* C16: on a half-open breaker each successful call adds one to the success
\* counter; below success_threshold the breaker stays half-open, and it closes
\* with both counters 0 exactly on the success_threshold-th consecutive
\* success since it became half-open.
C16_HalfOpenRecovery ==
    LET r == log.run
        c == log.last.after
    IN  /\ (r.kind = "returned" /\ r.start.state = HALF_OPEN) =>
              /\ r.start.success_count = 0
              /\ r.n < c.config.success_threshold =>
                    c.state = HALF_OPEN /\ c.success_count = r.n
              /\ r.n = c.config.success_threshold =>
                    c.state = CLOSED /\ c.success_count = 0 /\ c.failure_count = 0
        /\ (log.last.kind = "returned" /\ log.last.before.state = HALF_OPEN
              /\ c.state = HALF_OPEN) =>
              c.success_count = log.last.before.success_count + 1

C16_Witness ==
    /\ log.run.kind = "returned"
    /\ log.run.start.state = HALF_OPEN
    /\ log.run.n = MaxSuccessThreshold
    /\ log.last.before.success_count = MaxSuccessThreshold - 1
    /\ log.last.after.config.success_threshold = MaxSuccessThreshold
    /\ log.last.after.state = CLOSED

\* C17: in every reachable state opened_at is absent exactly when the breaker
\* is closed, and while the breaker is open or half-open opened_at is the time
\* at which the state last changed to open.
C17_OpenedAt ==
    /\ cb[test].opened_at = None <=> cb[test].state = CLOSED
    /\ cb[test].state # CLOSED => cb[test].opened_at = log.opened

C17_Witness ==
    /\ cb[test].state = HALF_OPEN
    /\ log.opened_from = HALF_OPEN
    /\ cb[test].opened_at = log.opened
    /\ log.opened > 0

\* C18: a call that is not blocked returns the very value the function
\* returned, after the success is recorded, or raises the very exception the
\* function raised, after the failure is recorded; it raises neither
\* CircuitBreakerError nor any other exception in its place.
C18_Transparent ==
    LET e == log.last
    IN  /\ e.kind = "returned" =>
              /\ ~e.func.raises
              /\ e.gave.returned = e.func.value
              /\ e.gave.raised = NoValue
              /\ e.after.call_history[Len(e.after.call_history)] = TRUE
        /\ e.kind = "raised" =>
              /\ e.func.raises
              /\ e.gave.raised = e.func.value
              /\ e.gave.returned = NoValue
              /\ e.after.call_history[Len(e.after.call_history)] = FALSE

C18_Witness ==
    /\ log.last.kind = "raised"
    /\ log.last.func.value = "Failed"
    /\ log.last.gave.raised = "Failed"
    /\ log.last.after.state = OPEN

\* C19: reset() from any reachable state leaves the breaker as a newly
\* constructed one (closed, both counters 0, opened_at absent, empty history),
\* and a reset that follows a reset changes nothing.
C19_ResetFresh ==
    log.last.kind = "reset" =>
        /\ log.last.after = CircuitBreaker(log.last.before.config)
        /\ log.run.n >= 2 => log.last.after = log.last.before

C19_Witness ==
    /\ log.last.kind = "reset"
    /\ log.run.n = 2
    /\ log.run.start.state = OPEN
    /\ log.run.start.call_history # <<>>
    /\ inflight = {}

(***************************************************************************)
(* route_analysis, as two of its calls show it                             *)
(***************************************************************************)
\* C20: two calls of route_analysis with the same total_tokens, has_vision and
\* user_intent return the same provider, lane and reason, whatever calls were
\* made between them and whatever the state of the circuit breakers is.
C20_DecisionDeterminism ==
    (seen # NoSeen /\ seen.request.inputs = request.inputs) => seen.decision = decision

C20_Witness ==
    /\ seen # NoSeen
    /\ seen.request.inputs = request.inputs
    /\ seen.request.calls = 0
    /\ request.calls = MaxDirectCalls
    /\ seen.request.states[smart_lane[1]] = CLOSED
    /\ request.states[smart_lane[1]] = OPEN
    /\ decision.provider = smart_lane[1]

(***************************************************************************)
(* route_analysis, as one call with the caller's arguments shows it        *)
(***************************************************************************)
\* C21: a request whose codebase holds more than 100000 characters is routed
\* to the first provider of the smart lane, with lane SMART and a reason that
\* has the word context, whatever has_vision and user_intent are; a codebase
\* of exactly 100000 characters is not routed for its size.
C21_LargeContextBeatsIntent ==
    decision # NoDecision =>
        /\ Sum(request.codebase) > 100000 =>
              /\ decision.provider = smart_lane[1]
              /\ decision.lane = SMART
              /\ "context" \in reason_words(decision.reason)
        /\ Sum(request.codebase) <= 100000 => "context" \notin reason_words(decision.reason)

C21_Witness ==
    /\ decision # NoDecision
    /\ Len(request.codebase) = 2
    /\ Sum(request.codebase) = 100001
    /\ request.user_intent = "--cheap"
    /\ request.has_vision = "False"
    /\ decision.lane = SMART

\* C22: a request that is not oversized and whose has_vision is true is
\* routed to the first provider of the smart lane, with lane SMART and a
\* reason that has the word vision, whatever user_intent is.
C22_VisionBeatsIntent ==
    (/\ decision # NoDecision
     /\ Sum(request.codebase) <= 100000
     /\ request.has_vision \in {"True", "1"}) =>
        /\ decision.provider = smart_lane[1]
        /\ decision.lane = SMART
        /\ "vision" \in reason_words(decision.reason)

C22_Witness ==
    /\ decision # NoDecision
    /\ Sum(request.codebase) = 100000
    /\ request.has_vision = "1"
    /\ request.user_intent = "--local"
    /\ decision.provider = smart_lane[1]

\* C23: a request with no hard constraint follows the intent, first match
\* first: --strong gives the first smart provider, --local the fast provider
\* named ollama, --cheap the first fast provider, anything else the first fast
\* provider with the default reason; so the lane is SMART exactly when the
\* request is oversized, has vision or asks --strong.
C23_IntentTable ==
    decision # NoDecision =>
        /\ (Sum(request.codebase) <= 100000 /\ request.has_vision \notin {"True", "1"}) =>
              /\ request.user_intent = "--strong" =>
                    /\ decision.provider = smart_lane[1]
                    /\ decision.lane = SMART
                    /\ "strong" \in reason_words(decision.reason)
              /\ request.user_intent = "--local" =>
                    /\ decision.provider = "ollama"
                    /\ decision.provider \in Range(fast_lane)
                    /\ decision.lane = FAST
                    /\ "local" \in reason_words(decision.reason)
              /\ request.user_intent = "--cheap" =>
                    /\ decision.provider = fast_lane[1]
                    /\ decision.lane = FAST
                    /\ "cheap" \in reason_words(decision.reason)
              /\ request.user_intent \notin {"--strong", "--local", "--cheap"} =>
                    /\ decision.provider = fast_lane[1]
                    /\ decision.lane = FAST
                    /\ "default" \in reason_words(decision.reason)
        /\ decision.lane = SMART <=>
              \/ Sum(request.codebase) > 100000
              \/ request.has_vision \in {"True", "1"}
              \/ request.user_intent = "--strong"

C23_Witness ==
    /\ decision # NoDecision
    /\ request.user_intent = "--local"
    /\ request.system_doc > 100000
    /\ request.has_vision = "None"
    /\ decision.reason = "User requested local provider"

(***************************************************************************)
(* _validate_result, as one call shows it                                  *)
(***************************************************************************)
\* C24: _validate_result is true exactly when the dict has the key success
\* with a truthy value and has the key result; a missing key or a false
\* success gives false, and a result that is present but empty still gives true.
C24_Validator ==
    verdict # NoVerdict =>
        (verdict = "truthy" <=>
            /\ returned.has_success
            /\ returned.success \in {"True", "1", "'ok'"}
            /\ returned.has_result)

C24_Witness ==
    /\ verdict = "truthy"
    /\ returned.success = "True"
    /\ returned.result = "[]"

(***************************************************************************)
(* get_provider_status, as its answers show it                             *)
(***************************************************************************)
\* C25: get_provider_status answers with one entry for each provider of the
\* two lanes, leaves every circuit breaker as it was, and two calls with no
\* provider call between them give the same answer.
C25_StatusReadOnly ==
    /\ status.n >= 1 =>
          /\ DOMAIN status.latest.entries = Range(fast_lane) \cup Range(smart_lane)
          /\ status.latest.after = status.latest.before
    /\ (status.n >= 2 /\ status.latest.calls = status.previous.calls) =>
          status.latest.entries = status.previous.entries

C25_Witness ==
    /\ status.n = 2
    /\ status.latest.calls = status.previous.calls
    /\ status.latest.calls = MaxDirectCalls
    /\ status.latest.entries = status.previous.entries
    /\ \E b \in Providers :
          /\ status.latest.entries[b].circuit_state = OPEN
          /\ status.latest.entries[b].failure_rate = 100

\* C26: get_provider_status reports for every provider the lane whose list
\* holds it: fast exactly for the providers of the fast lane, smart exactly
\* for those of the smart lane.
C26_LaneConsistency ==
    status.n >= 1 =>
        \A b \in Providers :
            /\ status.latest.entries[b].lane = FAST <=> b \in Range(fast_lane)
            /\ status.latest.entries[b].lane = SMART <=> b \in Range(smart_lane)

(***************************************************************************)
(* One circuit breaker: its history, its recovery, its transitions         *)
(***************************************************************************)
\* C27: the call history holds one entry for each call whose function ran
\* (TRUE for a return, FALSE for an exception) and none for a blocked call; it
\* is never longer than window_size and loses its oldest entry first, so it is
\* always the outcomes of the latest min(k, window_size) of the k calls executed
\* since construction or the last reset.
C27_HistoryIsBoundedFifo ==
    LET h == cb[test].call_history
        w == cb[test].config.window_size
    IN  /\ Len(h) <= w
        /\ h = LastN(log.executed, w)
        /\ log.last.kind = "blocked" =>
              log.last.after.call_history = log.last.before.call_history

C27_Witness ==
    /\ Len(log.executed) = cb[test].config.window_size + 1
    /\ log.executed[1] = TRUE
    /\ Len(cb[test].call_history) = cb[test].config.window_size
    /\ cb[test].call_history[Len(cb[test].call_history)] = FALSE
    /\ log.last.kind = "blocked"

\* C30: the state is always one of closed, open and half-open; a step of
\* call() changes it only from closed to open, from open to half-open, from
\* half-open to open or from half-open to closed, and only reset() takes an
\* open breaker to closed in one step.
C30_Transitions ==
    [][/\ cb'[test].state \in CircuitState
       /\ IF log' # log /\ log'.last.kind = "reset"
          THEN cb'[test].state = CLOSED
          ELSE \/ cb'[test].state = cb[test].state
               \/ <<cb[test].state, cb'[test].state>> \in
                     {<<CLOSED, OPEN>>, <<OPEN, HALF_OPEN>>,
                      <<HALF_OPEN, OPEN>>, <<HALF_OPEN, CLOSED>>}]_vars

C30_Witness ==
    /\ log.last.kind = "reset"
    /\ log.last.before.state = OPEN
    /\ log.last.after.state = CLOSED
    /\ log.opened_from = HALF_OPEN
    /\ log.executed = <<>>

\* C29: an open breaker does not block forever: a call made once the timeout
\* has elapsed since opened_at is admitted, and when calls keep being made and
\* every admitted call succeeds, the breaker becomes closed and stays closed.
C29_Recovery ==
    /\ [][(/\ cb[test].state = OPEN
           /\ cb[test].opened_at # None
           /\ now - cb[test].opened_at >= cb[test].config.timeout
           /\ inflight = {}
           /\ log' # log \/ inflight' # inflight)
          => \/ log'.last.kind = "reset"
             \/ inflight' # {} /\ cb'[test].state = HALF_OPEN]_vars
    /\ (pc = "healthy") ~> [](cb[test].state = CLOSED)

C29_Witness ==
    /\ pc = "healthy"
    /\ log.last.kind = "returned"
    /\ log.last.before.state = HALF_OPEN
    /\ log.last.before.success_count + 1 = log.last.before.config.success_threshold
    /\ log.last.before.config.success_threshold > 1
    /\ cb[test].state = CLOSED

\* C28: the call history never drives the breaker: two breakers that agree on
\* configuration, state, failure counter, success counter and opened_at but
\* not on their histories still agree on all of these after any calls made
\* to both at the same times with the same outcomes.
C28_HistoryDrivesNothing ==
    pc = "paired" => driving(cb[test]) = driving(cb[twin])

C28_Witness ==
    /\ pc = "paired"
    /\ log[1][test].state = CLOSED
    /\ cb[test].state = OPEN
    /\ cb[twin].state = OPEN
    /\ cb[test].call_history # cb[twin].call_history
    /\ failure_rate(cb[test]) # failure_rate(cb[twin])

C38_LazyHalfOpen ==
    /\ [][/\ now' # now => cb' = cb
          /\ \A b \in Providers :
                (cb[b].state = OPEN /\ cb'[b].state # OPEN) =>
                    /\ ndirect' = ndirect + 1
                    /\ should_attempt_reset(cb[b], now)
                    /\ \A o \in Providers \ {b} : cb'[o] = cb[o]]_vars
    /\ [](status.n >= 1 =>
             \A b \in Providers :
                status.latest.entries[b].circuit_state = status.latest.before[b].state)

C38_Witness ==
    /\ status.n >= 1
    /\ status.latest.before = cb
    /\ \E b \in Providers :
          /\ cb[b].state = OPEN
          /\ cb[b].opened_at # None
          /\ status.latest.at - cb[b].opened_at >= cb[b].config.timeout
          /\ status.latest.entries[b].circuit_state = OPEN

\* C31: a step changes the breaker of at most one provider: outside a request
\* it is the provider called, and during a request it is the provider of the
\* attempt the step makes, whose operation was invoked; the state, counters,
\* opened_at and history of every other breaker stay as they are.
C31_Isolation ==
    [][\A b \in Providers :
          cb'[b] # cb[b] =>
             /\ \A o \in Providers \ {b} : cb'[o] = cb[o]
             /\ IF pc = "idle"
                THEN ndirect' = ndirect + 1
                ELSE /\ Len(attempts') = Len(attempts) + 1
                     /\ attempts'[Len(attempts')].provider = b
                     /\ attempts'[Len(attempts')].outcome # "blocked"]_vars

C31_Witness ==
    LET attempted == {attempts[i].provider : i \in DOMAIN attempts}
    IN  /\ pc = "done"
        /\ ndirect = 0
        /\ Cardinality(attempted) >= 2
        /\ attempted # Providers
        /\ \A b \in attempted : cb[b] # provider_circuit_breaker(b)
        /\ \A b \in Providers \ attempted : cb[b] = provider_circuit_breaker(b)

\* C35: an attempt whose operation returned a result that the router rejects
\* is a success for the provider's breaker: the history gains a TRUE, a closed
\* breaker stays closed with failure counter 0, a half-open breaker counts
\* one more success (and closes at the threshold), and the breaker is never
\* open after it.
C35_InvalidCountsAsSuccess ==
    [][(/\ Len(attempts') = Len(attempts) + 1
        /\ attempts'[Len(attempts')].outcome = "invalid")
       => LET b == attempts'[Len(attempts')].provider
              c == cb[b]
              d == cb'[b]
          IN  /\ d.call_history # <<>>
              /\ d.call_history[Len(d.call_history)]
              /\ d.state # OPEN
              /\ c.state = CLOSED => d.state = CLOSED /\ d.failure_count = 0
              /\ c.state = HALF_OPEN =>
                    IF c.success_count + 1 >= c.config.success_threshold
                    THEN d.state = CLOSED
                    ELSE d.state = HALF_OPEN /\ d.success_count = c.success_count + 1
              /\ c.state = OPEN =>
                    IF 1 >= c.config.success_threshold
                    THEN d.state = CLOSED
                    ELSE d.state = HALF_OPEN /\ d.success_count = 1]_vars

C35_Witness ==
    /\ Len(attempts) >= 2
    /\ attempts[Len(attempts)].outcome = "invalid"
    /\ attempts[Len(attempts) - 1].outcome = "invalid"
    /\ attempts[Len(attempts) - 1].provider # attempts[Len(attempts)].provider
    /\ LET b == attempts[Len(attempts)].provider
           a == attempts[Len(attempts) - 1].provider
       IN  /\ cb[b].state = HALF_OPEN
           /\ cb[b].success_count = 1
           /\ cb[b].call_history[Len(cb[b].call_history)]
           /\ cb[a].state = CLOSED
           /\ cb[a].failure_count = 0
           /\ cb[a].call_history[Len(cb[a].call_history)]

\* C32: in half-open every call() invokes func, whatever the number of calls
\* already admitted and still awaiting theirs.
C32_HalfOpenAdmitsAll ==
    [][(cb[test].state = HALF_OPEN /\ log' # log
        /\ log'.last.kind \in {"admitted", "blocked"})
       => /\ log'.last.kind = "admitted"
          /\ inflight' = inflight \cup {log'.last.call}
          /\ Cardinality(inflight') = Cardinality(inflight) + 1
          /\ cb' = cb]_vars

C32_Witness ==
    /\ cb[test].state = HALF_OPEN
    /\ log.last.kind = "admitted"
    /\ log.last.before.state = HALF_OPEN
    /\ Cardinality(inflight) = MaxInflight
    /\ \A c \in inflight :
          c.state = HALF_OPEN /\ c.opened_at = cb[test].opened_at

\* C34: whatever the calls, their overlap and the resets, the failure counter
\* stays in 0..failure_threshold-1 and the success counter in
\* 0..success_threshold-1; the failure counter is 0 in open and in half-open,
\* and the success counter is 0 in closed and in open.
C34_Counters ==
    LET c == cb[test]
    IN  /\ 0 <= c.failure_count /\ c.failure_count < c.config.failure_threshold
        /\ 0 <= c.success_count /\ c.success_count < c.config.success_threshold
        /\ c.state \in {OPEN, HALF_OPEN} => c.failure_count = 0
        /\ c.state \in {CLOSED, OPEN} => c.success_count = 0

C34_Witness ==
    /\ cb[test].state = HALF_OPEN
    /\ cb[test].success_count = cb[test].config.success_threshold - 1
    /\ cb[test].success_count > 0
    /\ log.last.kind = "returned"
    /\ log.last.call.state = CLOSED
    /\ inflight # {}

\* C36: with overlapping calls, the success counter of a half-open breaker
\* grows, and the breaker closes, only by the success of a call admitted
\* during the current half-open period; the success of a call admitted
\* earlier does not count.
C36_OnlyTrialCallsClose ==
    [][(/\ cb[test].state = HALF_OPEN
        /\ log' # log
        /\ log'.last.kind = "returned"
        /\ \/ cb'[test].state = CLOSED
           \/ cb'[test].success_count > cb[test].success_count)
       => /\ log'.last.call.state = HALF_OPEN
          /\ log'.last.call.opened_at = cb[test].opened_at]_vars

\* C37: when a call admitted while the breaker was closed completes after the
\* breaker has opened, the completion appends one entry to the history and
\* leaves the state open and the counters and opened_at as they were.
C37_LateCompletion ==
    [][(/\ cb[test].state = OPEN
        /\ log' # log
        /\ log'.last.kind \in {"returned", "raised"}
        /\ log'.last.call.state = CLOSED)
       => /\ driving(cb'[test]) = driving(cb[test])
          /\ cb'[test].call_history =
                deque_append(cb[test].call_history, log'.last.kind = "returned",
                             cb[test].config.window_size)]_vars

C37_Witness ==
    /\ log.last.kind = "raised"
    /\ log.last.call.state = CLOSED
    /\ log.last.before.state = OPEN
    /\ cb[test].state = OPEN
    /\ cb[test].opened_at < now
    /\ cb[test].opened_at = log.last.before.opened_at
    /\ cb[test].call_history # log.last.before.call_history

====
